---- MODULE Spec2Model ----
(***************************************************************************)
(* Model of cleanup.py: main() validates the directories given on the      *)
(* command line (check_directories), then cleanup() deletes the oldest     *)
(* files below them until enough space is available or no file is left.    *)
(*                                                                         *)
(* The file system is a small tree of paths.  Path n stands for            *)
(*   1 = d1   2 = d1/f   3 = d1/s   4 = d1/s/g   5 = d2                    *)
(* d1 is a directory; d1/f and d1/s/g are files or missing; d1/s is a      *)
(* directory, a file or missing; d2 is a directory (on the device of d1 or *)
(* on another one), a file or missing.                                     *)
(* A path can also be written with a leading "./": n + Len(Parent) stands   *)
(* for that spelling of path n, a different string for the same file.      *)
(* Space is counted in units of 1/UnitsPerMB megabyte, so that the integer *)
(* division of avail_space_in_mb is visible.                               *)
(***************************************************************************)
EXTENDS Integers, Sequences, FiniteSets

\* ------------------------------------------------------------------ bounds
MaxArgs == 2          \* at most this many directory arguments
MaxMtime == 2         \* modification times are 1..MaxMtime
MaxSize == 2          \* file sizes are 1..MaxSize units
MaxFree == 2          \* free units at start are 0..MaxFree
MaxThreshold == 2     \* -s MIN_AVAIL_SPACE is MinThreshold..MaxThreshold (MB)
UnitsPerMB == 2       \* space units per megabyte

MinThreshold == 0 - 1

\* ------------------------------------------------------------- file system
Parent == <<0, 1, 1, 3, 0>>
Paths == 1..Len(Parent)
Kinds == {"none", "file", "dir"}
KindsAt == <<{"dir"}, {"none", "file"}, {"none", "file", "dir"}, {"none", "file"},
             {"none", "file", "dir"}>>
ArgPaths == {1, 3, 5}
\* the strings that name a path: the plain one and the one with "./" in front
Strings == 1..(2 * Len(Parent))
Devices == {0, 1}

VARIABLES
    argv,             \* the directories parse_opts returned
    min_avail_space,  \* the value of -s, in MB
    kind,             \* path -> "none" | "file" | "dir"
    mtime,            \* path -> modification time (0 unless a file)
    size,             \* path -> size in units (0 unless a file)
    dev,              \* path -> device of a top-level directory
    free,             \* free units on the device of the directories
    remove_can_fail,  \* whether os.remove may raise for a file that is there
    kind0,            \* kind when main was entered
    free0,            \* free when main was entered
    pc,               \* "main" | "cleanup" | "scan" | "loop" | "exit"
    directories,      \* main's variable `directories`
    files,            \* the set filled by the scan, in insertion order
    iteration,        \* the same set in the order sorted() iterates it
    all_files,        \* cleanup's list all_files
    removed,          \* the File objects removed so far, in order
    scans,            \* number of calls of find_files_sorted_by_mtime
    outcome,          \* what cleanup reported
    exit_code,        \* the value main returned, -1 while running
    run,              \* 1 for the first invocation, 2 for the one after it
    first_outcome,    \* what the first invocation reported, once it ended
    first_removed     \* what the first invocation removed

vars == <<argv, min_avail_space, kind, mtime, size, dev, free, remove_can_fail,
          kind0, free0, pc, directories, files, iteration, all_files, removed, scans,
          outcome, exit_code, run, first_outcome, first_removed>>

\* what no step of an invocation changes
env == <<argv, min_avail_space, mtime, size, dev, remove_can_fail, kind0, free0,
         run, first_outcome, first_removed>>

\* ----------------------------------------------------------------- helpers
\* the path a string names
Resolve(p) == IF p > Len(Parent) THEN p - Len(Parent) ELSE p

\* the string for path c that starts the way the string d does
Spell(c, d) == c + (d - Resolve(d))

RECURSIVE Top(_)
Top(p) == IF Parent[p] = 0 THEN p ELSE Top(Parent[p])

RECURSIVE Under(_, _)
\* p is a proper descendant of d
Under(p, d) == Parent[p] # 0 /\ (Parent[p] = d \/ Under(Parent[p], d))

exists(k, p) == k[Resolve(p)] # "none"
isdir(k, p) == k[Resolve(p)] = "dir"
isfile(k, p) == k[Resolve(p)] = "file"
st_dev(p) == dev[Top(Resolve(p))]

File(path, mt) == [path |-> path, mtime |-> mt]

RECURSIVE SeqOf(_)
\* the members of a set of paths in ascending order
SeqOf(S) == IF S = {} THEN <<>>
            ELSE LET m == CHOOSE x \in S : \A y \in S : x <= y
                 IN <<m>> \o SeqOf(S \ {m})

\* The entries of directory d, each joined to the string d.
listdir(k, d) ==
    SeqOf({Spell(p, d) : p \in {q \in Paths : Parent[q] = Resolve(d) /\ exists(k, q)}})

\* ------------------------------------------------------- class File, the set
\* File.__key: the identity of a File in a set is its path string alone.
File_key(f) == f.path

\* File.__eq__
File_eq(x, y) == File_key(x) = File_key(y)

\* set.add: an element equal to one already present is not added again.
set_add(s, f) == IF \E i \in 1..Len(s) : File_eq(s[i], f) THEN s ELSE Append(s, f)

\* --------------------------------------------------------------- the scan
RECURSIVE process_dir_any_entry(_, _, _)
\* A callback that adds every entry, whatever it is.
process_dir_any_entry(k, all, filenames) ==
    IF filenames = <<>> THEN all
    ELSE process_dir_any_entry(k,
                               set_add(all, File(Head(filenames),
                                                 mtime[Resolve(Head(filenames))])),
                               Tail(filenames))

RECURSIVE process_dir(_, _, _)
\* Adds the regular files among the entries `filenames` of a directory.
process_dir(k, all, filenames) ==
    IF filenames = <<>> THEN all
    ELSE LET fullpath == Head(filenames)
         IN process_dir(k,
                        IF ~isfile(k, fullpath) THEN all
                        ELSE set_add(all, File(fullpath, mtime[Resolve(fullpath)])),
                        Tail(filenames))

RECURSIVE walk(_, _, _), walk_names(_, _, _)
\* os.path.walk(top, process_dir, all): the entries of top first, then each
\* subdirectory in turn; a top that cannot be listed is skipped.
walk(k, top, all) ==
    IF ~isdir(k, top) THEN all
    ELSE walk_names(k, listdir(k, top), process_dir(k, all, listdir(k, top)))

walk_names(k, names, all) ==
    IF names = <<>> THEN all
    ELSE walk_names(k, Tail(names),
                    IF isdir(k, Head(names)) THEN walk(k, Head(names), all) ELSE all)

RECURSIVE walk_all(_, _, _)
\* the loop `for directory in directories` of find_files_sorted_by_mtime
walk_all(k, dirs, all) ==
    IF dirs = <<>> THEN all
    ELSE walk_all(k, Tail(dirs), walk(k, Head(dirs), all))

\* A comparison that puts the newest first.
KeyLess_newest_first(a, b) == a.mtime > b.mtime

\* sorted() compares the key mtime with <.
KeyLess(a, b) == a.mtime < b.mtime

\* An insertion that puts f in front of the elements with an equal key.
Insert_before_equal(sorted, f) ==
    LET n == Cardinality({i \in 1..Len(sorted) : KeyLess(sorted[i], f)})
    IN SubSeq(sorted, 1, n) \o <<f>> \o SubSeq(sorted, n + 1, Len(sorted))

\* One insertion of a stable sort: f goes behind every element not greater.
Insert(sorted, f) ==
    LET n == Cardinality({i \in 1..Len(sorted) : ~KeyLess(f, sorted[i])})
    IN SubSeq(sorted, 1, n) \o <<f>> \o SubSeq(sorted, n + 1, Len(sorted))

RECURSIVE SortFrom(_, _)
SortFrom(acc, s) == IF s = <<>> THEN acc ELSE SortFrom(Insert(acc, Head(s)), Tail(s))

\* A scan that hands over the files as iterated, without sorting them.
sorted_not_at_all(s) == s

\* sorted(files, key=lambda file: file.mtime): stable in the order iterated
sorted_by_mtime(s) == SortFrom(<<>>, s)

\* The orders in which a set with the elements of s can be iterated.
Orders(s) ==
    LET n == Len(s)
        P == {p \in [1..n -> 1..n] : \A i, j \in 1..n : p[i] = p[j] => i = j}
    IN {[i \in 1..n |-> s[p[i]]] : p \in P}

\* ------------------------------------------------------------- free space
\* A conversion that rounds up instead of down.
avail_space_rounded_up(units) == (units + UnitsPerMB - 1) \div UnitsPerMB

\* st.f_frsize*st.f_bavail/1024/1024 with integer division
avail_space_in_mb(units) == units \div UnitsPerMB

\* A test that wants more than the requested space.
enough_space_strict(units, min) == avail_space_in_mb(units) > min

\* cleanup, line 152: is there enough space already?
enough_space(units, min) == avail_space_in_mb(units) >= min

\* A loop that stops with one file left in the list.
loop_condition_off_by_one(units, min, all) ==
    avail_space_in_mb(units) < min /\ Len(all) > 1

\* A loop that goes on while the space just equals the request.
loop_condition_one_more(units, min, all) ==
    avail_space_in_mb(units) <= min /\ Len(all) > 0

\* cleanup, lines 162-163: the condition of the while loop
loop_condition(units, min, all) == avail_space_in_mb(units) < min /\ Len(all) > 0

\* A pop that reads the head and leaves it in the list.
pop0_keeps_head(all) == all

\* A pop that takes two files off the list.
pop0_drops_two(all) == IF Len(all) > 1 THEN Tail(Tail(all)) ELSE <<>>

\* cleanup, line 164: what all_files.pop(0) leaves in the list
pop0(all) == Tail(all)

\* cleanup, lines 170-171: the condition of the final report
report_condition(units, min, all) == avail_space_in_mb(units) < min /\ Len(all) = 0

\* ------------------------------------------------------- check_directories
\* A first loop that forgets the test os.path.isdir.
OkDirs_any_existing(k, dirs) == SelectSeq(dirs, LAMBDA d : exists(k, d))

\* A first loop that stops at the first path it cannot use (break for continue).
OkDirs_stop_at_first_bad(k, dirs) ==
    LET bad == {i \in 1..Len(dirs) : ~(exists(k, dirs[i]) /\ isdir(k, dirs[i]))}
    IN IF bad = {} THEN dirs
       ELSE SubSeq(dirs, 1, (CHOOSE i \in bad : \A j \in bad : i <= j) - 1)

\* check_directories, lines 181-191: the paths that exist and are directories
OkDirs(k, dirs) == SelectSeq(dirs, LAMBDA d : exists(k, d) /\ isdir(k, d))

\* A second loop that compares each device with itself.
SameDevice_self_compare(ok) == \A i \in 2..Len(ok) : st_dev(ok[i]) = st_dev(ok[i])

\* check_directories, lines 197-207: every directory is on the device of the
\* one before it
SameDevice(ok) == \A i \in 2..Len(ok) : st_dev(ok[i]) = st_dev(ok[i - 1])

\* A check without the test for an empty list.
check_directories_accepts_empty(k, dirs) ==
    LET ok_dirs == OkDirs(k, dirs)
    IN IF ~SameDevice(ok_dirs) THEN <<FALSE, <<>>>>
       ELSE <<TRUE, ok_dirs>>

\* the pair (ok, directories) check_directories returns
check_directories(k, dirs) ==
    LET ok_dirs == OkDirs(k, dirs)
    IN IF Len(ok_dirs) = 0 THEN <<FALSE, <<>>>>
       ELSE IF ~SameDevice(ok_dirs) THEN <<FALSE, <<>>>>
       ELSE <<TRUE, ok_dirs>>

\* ------------------------------------------------------------ initial state
RECURSIVE SumOver(_, _)
SumOver(f, S) == IF S = {} THEN 0
                 ELSE LET x == CHOOSE y \in S : TRUE IN f[x] + SumOver(f, S \ {x})

ArgSeqs == UNION {[1..n -> ArgPaths] : n \in 1..MaxArgs}

\* argument lists in which a directory may also be written with "./"
AliasArgSeqs ==
    UNION {[1..n -> {s \in Strings : Resolve(s) \in ArgPaths}] : n \in 1..MaxArgs}

\* A tree: an entry exists only in a directory.  A file at the top level lies
\* in no directory that can be given, so its time and size are fixed at 1.
TreeOk(k) == \A p \in Paths : exists(k, p) /\ Parent[p] # 0 => isdir(k, Parent[p])

InitTree ==
    /\ min_avail_space \in MinThreshold..MaxThreshold
    /\ kind \in {k \in [Paths -> Kinds] :
                    /\ TreeOk(k)
                    /\ \A p \in Paths : k[p] \in KindsAt[p]}
    /\ mtime \in {m \in [Paths -> 0..MaxMtime] :
                    \A p \in Paths : /\ (m[p] = 0) <=> ~isfile(kind, p)
                                     /\ Parent[p] = 0 => m[p] <= 1}
    /\ size \in {z \in [Paths -> 0..MaxSize] :
                    \A p \in Paths : /\ (z[p] = 0) <=> ~isfile(kind, p)
                                     /\ Parent[p] = 0 => z[p] <= 1}
    /\ dev \in {d \in [Paths -> Devices] :
                    \A p \in Paths : p # 5 \/ ~isdir(kind, p) => d[p] = 0}
    /\ free \in 0..MaxFree
    /\ kind0 = kind
    /\ free0 = free

InitEnv == argv \in ArgSeqs /\ InitTree

InitRun ==
    /\ pc = "main"
    /\ directories = argv
    /\ files = <<>>
    /\ iteration = <<>>
    /\ all_files = <<>>
    /\ removed = <<>>
    /\ scans = 0
    /\ outcome = "None"
    /\ exit_code = 0 - 1
    /\ run = 1
    /\ first_outcome = "None"
    /\ first_removed = <<>>

Init == InitEnv /\ remove_can_fail = FALSE /\ InitRun

\* the same, where the system may refuse a removal
InitFault == InitEnv /\ remove_can_fail = TRUE /\ InitRun

\* the same, with directories given under either spelling
InitAlias == argv \in AliasArgSeqs /\ InitTree /\ remove_can_fail = FALSE /\ InitRun

main_return_nonzero_when_short(result) ==
    IF result = "ExhaustedInsufficient" THEN 1 ELSE 0

\* main, line 286: return 0 after cleanup, whatever it reported
main_return(result) == 0

pc_after_raise_continue == "loop"

\* cleanup, line 166: no try around os.remove, the exception leaves cleanup
\* and main and ends the process
pc_after_raise == "exit"

\* ------------------------------------------------------------------ actions
\* main, lines 280-282: check_directories and the early return 1
Validate ==
    /\ pc = "main"
    /\ LET r == check_directories(kind, directories)
       IN IF ~r[1]
          THEN /\ pc' = "exit"
               /\ exit_code' = 1
               /\ directories' = r[2]
          ELSE /\ pc' = "cleanup"
               /\ directories' = r[2]
               /\ UNCHANGED exit_code
    /\ UNCHANGED <<env, kind, free, files, iteration, all_files, removed,
                   scans, outcome>>

\* cleanup, lines 152-156: nothing to do when enough space is available
CheckSpace ==
    /\ pc = "cleanup"
    /\ IF enough_space(free, min_avail_space)
       THEN /\ outcome' = "AlreadySatisfied"
            /\ exit_code' = main_return("AlreadySatisfied")
            /\ pc' = "exit"
       ELSE /\ pc' = "scan"
            /\ UNCHANGED <<outcome, exit_code>>
    /\ UNCHANGED <<env, kind, free, directories, files, iteration, all_files,
                   removed, scans>>

\* cleanup, line 159: find_files_sorted_by_mtime(directories)
Scan ==
    /\ pc = "scan"
    /\ \E found \in {walk_all(kind, directories, <<>>)} :
          \E iterated \in Orders(found) :
              /\ files' = found
              /\ iteration' = iterated
              /\ all_files' = sorted_by_mtime(iterated)
    /\ scans' = scans + 1
    /\ pc' = "loop"
    /\ UNCHANGED <<env, kind, free, directories, removed, outcome, exit_code>>

\* cleanup, lines 162-167: one iteration of the while loop
Delete ==
    /\ pc = "loop"
    /\ loop_condition(free, min_avail_space, all_files)
    /\ \E refused \in {FALSE, remove_can_fail} :
       LET file == Head(all_files)
       IN /\ all_files' = pop0(all_files)
          /\ IF isfile(kind, file.path) /\ ~refused
             THEN /\ kind' = [kind EXCEPT ![Resolve(file.path)] = "none"]
                  /\ free' = free + size[Resolve(file.path)]
                  /\ removed' = Append(removed, file)
                  /\ UNCHANGED <<pc, outcome, exit_code>>
             ELSE \* os.remove raises and nothing catches it
                  /\ pc' = pc_after_raise
                  /\ outcome' = "Raised"
                  /\ exit_code' = 1
                  /\ UNCHANGED <<kind, free, removed>>
    /\ UNCHANGED <<env, directories, files, iteration, scans>>

\* cleanup, lines 170-174, and main's return 0
Report ==
    /\ pc = "loop"
    /\ ~loop_condition(free, min_avail_space, all_files)
    /\ outcome' = IF report_condition(free, min_avail_space, all_files)
                  THEN "ExhaustedInsufficient"
                  ELSE "Reclaimed"
    /\ exit_code' = main_return(outcome')
    /\ pc' = "exit"
    /\ UNCHANGED <<env, kind, free, directories, files, iteration, all_files,
                   removed, scans>>

Next == Validate \/ CheckSpace \/ Scan \/ Delete \/ Report

Spec == Init /\ [][Next]_vars

\* os.remove may raise: permission denied, I/O error
SpecFault == InitFault /\ [][Next]_vars

\* the directories may be spelled with a leading "./"
SpecAlias == InitAlias /\ [][Next]_vars

\* main is invoked again with the same arguments once the first invocation
\* has ended; nothing else touches the file system in between
Restart ==
    /\ pc = "exit"
    /\ run = 1
    /\ run' = 2
    /\ first_outcome' = outcome
    /\ first_removed' = removed
    /\ kind0' = kind
    /\ free0' = free
    /\ pc' = "main"
    /\ directories' = argv
    /\ files' = <<>>
    /\ iteration' = <<>>
    /\ all_files' = <<>>
    /\ removed' = <<>>
    /\ scans' = 0
    /\ outcome' = "None"
    /\ exit_code' = 0 - 1
    /\ UNCHANGED <<argv, min_avail_space, kind, mtime, size, dev, free,
                   remove_can_fail>>

NextTwice == Next \/ Restart

SpecTwice == Init /\ [][NextTwice]_vars

\* ================================================================== claims
PathsOf(s) == {s[i].path : i \in 1..Len(s)}

\* total size of the files the scan found
ScannedSize == SumOver(size, PathsOf(files))

\* what is missing at the start of the run, in units
Deficit == min_avail_space * UnitsPerMB - free0

\* the threshold in units
Threshold == min_avail_space * UnitsPerMB

\* cleanup() has been called
CleanupEntered == pc \in {"cleanup", "scan", "loop"} \/ outcome # "None"

\* C1: if free space is below the threshold at the start and the scanned
\* files together are at least as large as the deficit (equality included),
\* the loop does not run out of files before the threshold is met, and
\* cleanup ends with outcome Reclaimed and free space >= threshold.
C1_ReclaimedWhenEnough ==
    (scans > 0 /\ free0 < Threshold /\ ScannedSize >= Deficit) =>
        /\ (pc = "loop" /\ free < Threshold => Len(all_files) > 0)
        /\ (pc = "exit" => outcome = "Reclaimed" /\ free >= Threshold)

\* Both files had to go: their sizes add up to the deficit exactly.
C1_Witness ==
    /\ pc = "exit"
    /\ outcome = "Reclaimed"
    /\ Len(removed) = 2
    /\ ScannedSize = Deficit

\* C2: if the scanned files together are smaller than the deficit, cleanup
\* ends with outcome ExhaustedInsufficient, every scanned file has been
\* deleted, and free space is still below the threshold.
C2_ExhaustedWhenShort ==
    (pc = "exit" /\ scans > 0 /\ ScannedSize < Deficit) =>
        /\ outcome = "ExhaustedInsufficient"
        /\ \A i \in 1..Len(files) :
              files[i].path \in PathsOf(removed) /\ kind[files[i].path] = "none"
        /\ free < Threshold

\* Two files were deleted and the space is still short by less than a megabyte.
C2_Witness ==
    /\ pc = "exit"
    /\ outcome = "ExhaustedInsufficient"
    /\ Len(removed) = 2
    /\ Deficit - ScannedSize = 1

\* C3: files are deleted oldest first: of two deleted files, the one deleted
\* earlier has a recorded modification time <= that of the other.
C3_OldestFirst ==
    \A i, j \in 1..Len(removed) : i < j => removed[i].mtime <= removed[j].mtime

\* Two files of different age were deleted, and the scan found the newer first.
C3_Witness ==
    /\ Len(removed) = 2
    /\ removed[1].mtime < removed[2].mtime
    /\ files[1] = removed[2]

\* C4: if the available space is >= the threshold when cleanup starts, no
\* file is deleted, the scanner is not called, the outcome is
\* AlreadySatisfied and the file system is as it was.
C4_AlreadySatisfied ==
    (CleanupEntered /\ pc # "cleanup" /\ free0 >= Threshold) =>
        /\ pc = "exit"
        /\ outcome = "AlreadySatisfied"
        /\ exit_code = 0
        /\ scans = 0
        /\ files = <<>>
        /\ removed = <<>>
        /\ kind = kind0
        /\ free = free0

\* A run with a threshold of zero or less that had files it could delete.
C4_Witness ==
    /\ pc = "exit"
    /\ outcome = "AlreadySatisfied"
    /\ min_avail_space <= 0
    /\ \E p \in Paths : isfile(kind, p) /\ Under(p, directories[1])

\* The same with a positive threshold that the free space equals exactly.
C4_WitnessPositive ==
    /\ pc = "exit"
    /\ outcome = "AlreadySatisfied"
    /\ min_avail_space > 0
    /\ free0 = Threshold

\* the arguments that were directories when the run started
ValidDirs == {argv[i] : i \in {j \in 1..Len(argv) : kind0[argv[j]] = "dir"}}

\* the arguments that were regular files when the run started
FileArgs == {argv[i] : i \in {j \in 1..Len(argv) : kind0[argv[j]] = "file"}}

UnderValidDir(p) == \E d \in ValidDirs : Under(p, d)

\* C5 as claimed: every deleted file lies under a validated directory
\* argument, and an argument that is a regular file is never deleted and
\* never scanned.
C5_FileArgumentNeverDeleted ==
    /\ \A p \in PathsOf(removed) : UnderValidDir(p)
    /\ \A a \in FileArgs : a \notin PathsOf(removed) /\ a \notin PathsOf(files)

\* C5 as amended: every scanned and every deleted file is a regular file
\* under a validated directory argument; files outside them are left alone;
\* an argument that is a regular file is never a directory to scan, and it
\* is scanned or deleted only if it lies under a validated directory argument.
C5_OnlyUnderDirectories ==
    /\ \A p \in PathsOf(removed) \cup PathsOf(files) :
          kind0[p] = "file" /\ UnderValidDir(p)
    /\ \A p \in Paths : kind0[p] = "file" /\ ~UnderValidDir(p) => kind[p] = "file"
    /\ \A a \in FileArgs :
          /\ pc # "main" => \A i \in 1..Len(directories) : directories[i] # a
          /\ ~UnderValidDir(a) => kind[a] = "file" /\ a \notin PathsOf(files)

\* More space was wanted than the directory held: its files are gone, the
\* file given as an argument outside of it is still there.
C5_Witness ==
    /\ pc = "exit"
    /\ outcome = "ExhaustedInsufficient"
    /\ removed # <<>>
    /\ \E a \in FileArgs : ~UnderValidDir(a) /\ kind[a] = "file"

\* C6: no directory is ever deleted: every directory that existed at the
\* start still exists, and only regular files enter the inventory.
C6_NoDirectoryDeleted ==
    /\ \A p \in Paths : kind0[p] = "dir" => kind[p] = "dir"
    /\ \A p \in PathsOf(files) \cup PathsOf(all_files) \cup PathsOf(removed) :
          kind0[p] = "file"

\* The file d1/s/g was deleted and d1/s, now empty, is still a directory.
C6_Witness ==
    /\ pc = "exit"
    /\ 4 \in PathsOf(removed)
    /\ kind[3] = "dir"
    /\ listdir(kind, 3) = <<>>

\* no argument is an existing directory
NoValidDir == ValidDirs = {}

\* two arguments are directories on different devices
MixedDevices == \E d, e \in ValidDirs : st_dev(d) # st_dev(e)

\* C7: when no argument is an existing directory, or the directories are
\* not all on one device, main returns 1, cleanup is never entered and no
\* file is deleted.
C7_ValidationFails ==
    (pc # "main" /\ (NoValidDir \/ MixedDevices)) =>
        /\ pc = "exit"
        /\ exit_code = 1
        /\ outcome = "None"
        /\ scans = 0
        /\ removed = <<>>
        /\ kind = kind0
        /\ free = free0

\* Directories on two devices, space missing and a file that could have gone.
C7_Witness ==
    /\ pc = "exit"
    /\ exit_code = 1
    /\ MixedDevices
    /\ free0 < Threshold
    /\ \E p \in Paths : isfile(kind, p) /\ UnderValidDir(p)

\* The same with no directory among the arguments.
C7_WitnessNoDirectory ==
    /\ pc = "exit"
    /\ exit_code = 1
    /\ NoValidDir
    /\ free0 < Threshold
    /\ \E p \in Paths : isfile(kind, p)

Rank == CASE pc = "main" -> 4
          [] pc = "cleanup" -> 3
          [] pc = "scan" -> 2
          [] pc = "loop" -> 1
          [] pc = "exit" -> 0

\* falls with every step of a run
Measure == Rank * (Cardinality(Paths) + 1) + Len(all_files)

\* A run that has not ended can take its next step; the scan can, when the
\* set it fills can be iterated in some order.
CanStep ==
    CASE pc = "main" -> ENABLED Validate
      [] pc = "cleanup" -> ENABLED CheckSpace
      [] pc = "scan" -> Orders(walk_all(kind, directories, <<>>)) # {}
      [] pc = "loop" -> ENABLED Delete \/ ENABLED Report
      [] pc = "exit" -> TRUE

\* C9: every run ends: a run that has not ended can take a step and every
\* step lowers Measure; the list the loop works on has the size of the
\* inventory after the scan, every iteration shortens it by one, so the loop
\* makes at most as many iterations as the inventory has files.
C9_LoopBounded ==
    /\ []CanStep
    /\ [][Measure' < Measure]_vars
    /\ [][pc = "scan" => Len(all_files') = Len(files')]_vars
    /\ [][pc = "loop" /\ pc' = "loop" => Len(all_files') = Len(all_files) - 1]_vars
    /\ [](Len(removed) + Len(all_files) <= Len(files))

\* The loop made as many iterations as the inventory had files, two.
C9_Witness ==
    /\ pc = "exit"
    /\ Len(files) = 2
    /\ Len(removed) = 2

\* f and g have the same recorded time, and f stands before g in the order s.
TiedBefore(s, f, g) ==
    /\ f.mtime = g.mtime
    /\ \E i, j \in 1..Len(s) : i < j /\ s[i] = f /\ s[j] = g

\* g was deleted and f was not deleted before it.
DeletedNotAfter(g, f) ==
    \E j \in 1..Len(removed) :
        removed[j] = g /\ \A i \in 1..(j - 1) : removed[i] # f

Attempted ==
    SubSeq(sorted_by_mtime(iteration), 1, Len(iteration) - Len(all_files))

\* C11: the inventory never holds two entries for the same resolved file, and
\* the loop attempts to delete each file at most once in a run, however the
\* given directories overlap, repeat or nest.
C11_OneEntryPerFile ==
    /\ \A i, j \in 1..Len(files) :
          Resolve(files[i].path) = Resolve(files[j].path) => i = j
    /\ pc \in {"loop", "exit"} =>
          \A i, j \in 1..Len(Attempted) :
              Resolve(Attempted[i].path) = Resolve(Attempted[j].path) => i = j

\* C11, the part that holds: directories that overlap, repeat or nest under
\* one spelling put each file into the inventory once (an invariant of Spec).
C11_OncePerSpelling ==
    /\ \A i, j \in 1..Len(files) : files[i].path = files[j].path => i = j
    /\ Cardinality(PathsOf(removed)) = Len(removed)

\* a file reached through two of the given directories and removed
C11_WitnessOverlap ==
    /\ Len(argv) = 2
    /\ \E f \in PathsOf(removed) : Under(f, argv[1]) /\ Under(f, argv[2])


\* ---------------------------------------------------------------------- C12
\* the file whose removal was refused: the last one taken off the list
Failed == Attempted[Len(Attempted)]

C12_AfterFailure ==
    outcome = "Raised" =>
        /\ pc = "exit"
        /\ exit_code # 0
        /\ Len(removed) + 1 = Len(Attempted)
        /\ removed = SubSeq(Attempted, 1, Len(removed))
        /\ isfile(kind, Failed.path)
        /\ \A i \in 1..Len(removed) : ~exists(kind, removed[i].path)
        /\ \A i \in 1..Len(all_files) : isfile(kind, all_files[i].path)
        /\ free = free0 + SumOver(size, PathsOf(removed))

C12_Step ==
    /\ outcome # "Raised"
    /\ Len(all_files') < Len(all_files) /\ removed' = removed =>
          /\ outcome' = "Raised"
          /\ pc' = "exit"
          /\ kind' = kind
          /\ free' = free

\* C12: when os.remove fails the run ends at that step: the failure is not
\* swallowed, no step follows it, so no further file is removed or attempted
\* and neither final report is made, and the files removed before it stay
\* removed with the space they freed.
C12_FailureAborts == [](C12_AfterFailure) /\ [][C12_Step]_vars

\* a removal fails after an earlier one succeeded
C12_Witness ==
    /\ outcome = "Raised"
    /\ Len(removed) = 1
    /\ ~exists(kind, removed[1].path)

\* a removal fails while a further file, still needed, waits in the list
C12_WitnessRest ==
    /\ outcome = "Raised"
    /\ all_files # <<>>
    /\ free < Threshold


\* ---------------------------------------------------------------------- C13
\* C13: a run whose directories pass check_directories and in which no
\* removal fails ends with exit code 0 and one of the reports
\* AlreadySatisfied, Reclaimed, ExhaustedInsufficient; running out of files
\* below the threshold is no error exit.
C13_ExitZero ==
    (pc = "exit" /\ check_directories(kind0, argv)[1] /\ outcome # "Raised") =>
        /\ exit_code = 0
        /\ outcome \in {"AlreadySatisfied", "Reclaimed", "ExhaustedInsufficient"}

\* the files ran out below the threshold and main returned 0
C13_Witness ==
    /\ pc = "exit"
    /\ outcome = "ExhaustedInsufficient"
    /\ removed # <<>>
    /\ free < Threshold
    /\ exit_code = 0

C13_WitnessReclaimed == pc = "exit" /\ outcome = "Reclaimed" /\ exit_code = 0

C13_WitnessSatisfied == pc = "exit" /\ outcome = "AlreadySatisfied" /\ exit_code = 0


\* ---------------------------------------------------------------------- C14
\* free units just before the k-th removal of the run
FreeBefore(k) ==
    free0 + SumOver(size, {Resolve(removed[i].path) : i \in 1..(k - 1)})

\* C14: every removal happens with the free space read just before it below
\* the threshold, so the removed files are the shortest prefix of the
\* inventory in mtime order that lifts the free space to the threshold, or
\* the whole inventory when no prefix does; nothing is removed once the
\* threshold is met.
C14_NoMoreThanNeeded ==
    /\ removed = SubSeq(sorted_by_mtime(iteration), 1, Len(removed))
    /\ \A k \in 1..Len(removed) : FreeBefore(k) < Threshold
    /\ free = FreeBefore(Len(removed) + 1)
    /\ outcome \in {"Reclaimed", "ExhaustedInsufficient"} =>
          free >= Threshold \/ Len(removed) = Len(files)

\* the loop stops with a file left as soon as the threshold is met
C14_Witness ==
    /\ outcome = "Reclaimed"
    /\ Len(removed) = 1
    /\ Len(files) = 2
    /\ free0 < Threshold
    /\ free >= Threshold

\* ---------------------------------------------------------------------- C15
\* a list check_directories may pass on
GoodList(dirs) ==
    /\ Len(dirs) > 0
    /\ \A i \in 1..Len(dirs) : exists(kind, dirs[i]) /\ isdir(kind, dirs[i])
    /\ \A i, j \in 1..Len(dirs) : st_dev(dirs[i]) = st_dev(dirs[j])

\* C15: whenever cleanup has been entered from main, its list of directories
\* is not empty, each member exists and is a directory, and all members are
\* on one device; check_directories answers ok only with such a list.
C15_ValidList ==
    /\ CleanupEntered => GoodList(directories)
    /\ pc = "main" =>
          LET r == check_directories(kind, directories)
          IN r[1] => GoodList(r[2])

\* cleanup runs on two different directories of one device
C15_Witness ==
    /\ pc = "cleanup"
    /\ Len(directories) = 2
    /\ directories[1] # directories[2]
    /\ isdir(kind, 5)

\* ---------------------------------------------------------------------- C16
\* C16: at every point of a run the removed files are a prefix of the
\* inventory in mtime order: no scanned file still on disk has a recorded
\* time strictly older than that of a removed file.
C16_NoOlderSurvivor ==
    /\ \A i \in 1..Len(files) :
          isfile(kind, files[i].path) =>
              \A j \in 1..Len(removed) : ~(files[i].mtime < removed[j].mtime)
    /\ \A i \in 1..Len(files) :
          isfile(kind, files[i].path) <=> files[i].path \notin PathsOf(removed)

\* in the middle of the loop a strictly newer file is still on disk
C16_Witness ==
    /\ pc = "loop"
    /\ removed # <<>>
    /\ \E i \in 1..Len(files) :
          /\ isfile(kind, files[i].path)
          /\ files[i].mtime > removed[1].mtime


\* ---------------------------------------------------------------------- C17
\* C17: a second invocation with the same arguments, right after a first one
\* that ended with AlreadySatisfied, Reclaimed or ExhaustedInsufficient and
\* with nothing else changed, removes no file; with the threshold already
\* satisfied both invocations leave everything as it was.
C17_SecondRunRemovesNothing ==
    (run = 2 /\ first_outcome \in {"AlreadySatisfied", "Reclaimed",
                                   "ExhaustedInsufficient"}) =>
        /\ removed = <<>>
        /\ kind = kind0
        /\ free = free0
        /\ outcome # "Raised"
        /\ first_outcome = "AlreadySatisfied" =>
              /\ first_removed = <<>>
              /\ scans = 0
              /\ outcome \in {"None", "AlreadySatisfied"}
        /\ first_outcome = "Reclaimed" => outcome \in {"None", "AlreadySatisfied"}
        /\ first_outcome = "ExhaustedInsufficient" =>
              /\ files = <<>>
              /\ outcome \in {"None", "ExhaustedInsufficient"}

\* the first invocation removed every file and stayed short; the second one
\* scans, finds nothing and reports the same
C17_Witness ==
    /\ run = 2
    /\ pc = "exit"
    /\ first_outcome = "ExhaustedInsufficient"
    /\ first_removed # <<>>
    /\ scans = 1
    /\ outcome = "ExhaustedInsufficient"

\* the first invocation reclaimed the space and left a file; the second one
\* finds the threshold satisfied
C17_WitnessReclaimed ==
    /\ run = 2
    /\ pc = "exit"
    /\ first_outcome = "Reclaimed"
    /\ \E p \in Paths : isfile(kind, p) /\ Under(p, directories[1])
    /\ outcome = "AlreadySatisfied"

\* both invocations find the threshold satisfied
C17_WitnessSatisfied ==
    /\ run = 2
    /\ pc = "exit"
    /\ first_outcome = "AlreadySatisfied"
    /\ outcome = "AlreadySatisfied"

====
